---- MODULE Spec2Model ----
(***************************************************************************)
(* Model of app.py, the YouTube transcript analyzer page: the module-level *)
(* video-id extraction, get_transcript with its caption / audio fallback   *)
(* chain, the two st.cache_data memoizations and the three button          *)
(* handlers.  One action is one Streamlit script run.                      *)
(*                                                                         *)
(* Strings that the code splits are sequences of lexemes.  A lexeme is a   *)
(* TLA+ string standing for that exact piece of text; the separators the   *)
(* code looks for ("youtu.be/", "?", "v=", "&") and the markers it tests   *)
(* for ("youtu.be", "youtube.com") are lexeme sequences, and every other   *)
(* lexeme is text that contains none of them.  Split and Contains work on  *)
(* these sequences as str.split and the in operator work on characters.    *)
(***************************************************************************)
EXTENDS Naturals, Sequences, FiniteSets, TLC

VARIABLES url, target_language, tracks, cache, summary_cache, last

vars == <<url, target_language, tracks, cache, summary_cache, last>>

(***************************************************************************)
(* Bounds                                                                  *)
(***************************************************************************)
\* longest URL typed in the extraction specification, in pieces of UrlParts
MaxUrlParts == 5
\* most caption tracks the caption service holds for the video
MaxTracks == 2
\* longest identifier the URL shapes of the extraction claims are tried with
MaxIdLen == 2

(***************************************************************************)
(* Strings                                                                 *)
(***************************************************************************)
None == "None"

\* s[i..] starts with sub
StartsAt(s, sub, i) ==
    /\ i + Len(sub) - 1 <= Len(s)
    /\ \A k \in 1..Len(sub) : s[i + k - 1] = sub[k]

\* sub in s
Contains(s, sub) == \E i \in 1..(Len(s) + 1) : StartsAt(s, sub, i)

\* s.split(sep): the pieces between the leftmost non-overlapping
\* occurrences of sep; always at least one piece
RECURSIVE SplitFrom(_, _, _, _)
SplitFrom(s, sep, i, cur) ==
    IF i > Len(s) THEN <<cur>>
    ELSE IF StartsAt(s, sep, i)
         THEN <<cur>> \o SplitFrom(s, sep, i + Len(sep), <<>>)
         ELSE SplitFrom(s, sep, i + 1, Append(cur, s[i]))

Split(s, sep) == SplitFrom(s, sep, 1, <<>>)

\* " ".join(words)
RECURSIVE Join(_)
Join(words) ==
    IF words = <<>> THEN ""
    ELSE IF Len(words) = 1 THEN words[1]
    ELSE words[1] \o " " \o Join(Tail(words))

RECURSIVE Flatten(_)
Flatten(parts) ==
    IF parts = <<>> THEN <<>> ELSE parts[1] \o Flatten(Tail(parts))

SeqsUpTo(S, n) == UNION {[1..k -> S] : k \in 0..n}

(***************************************************************************)
(* Exceptions: the classes the code raises and the except clauses match    *)
(***************************************************************************)
\* isinstance(exc, handler) for the clauses "except IndexError",
\* "except Exception" and the bare "except:"
CatchesExact(handler, exc) == exc # None /\ handler = exc

Catches(handler, exc) ==
    /\ exc # None
    /\ \/ handler = "Exception"
       \/ handler = "bare"
       \/ handler = exc

(***************************************************************************)
(* Module-level video-id extraction, lines 221-229 and 306-309             *)
(***************************************************************************)
MsgInvalidUrl == "Invalid YouTube URL. Please enter a valid YouTube video URL."
MsgUnexpectedInvalid == "An unexpected error occurred: Invalid YouTube URL format"

\* lines 224-229: the identifier, or the exception the statement raises
ExtractVideoId(u) ==
    IF Contains(u, <<"youtu.be">>)
    THEN LET p == Split(u, <<"youtu.be", "/">>)
         IN  IF Len(p) < 2 THEN [exc |-> "IndexError", id |-> <<>>]
             ELSE [exc |-> None, id |-> Split(p[2], <<"?">>)[1]]
    ELSE IF Contains(u, <<"youtube.com">>)
    THEN LET p == Split(u, <<"v=">>)
         IN  IF Len(p) < 2 THEN [exc |-> "IndexError", id |-> <<>>]
             ELSE [exc |-> None, id |-> Split(p[2], <<"&">>)[1]]
    ELSE [exc |-> "ValueError", id |-> <<>>]

(***************************************************************************)
(* The caption service (youtube_transcript_api) as get_transcript uses it  *)
(***************************************************************************)
\* lines 177 and 182: the language list both lookups are given, in order
LanguageCodes == <<"en", "hi", "mr", "es", "fr", "de", "ja", "ko", "ru">>

Supported == {LanguageCodes[i] : i \in 1..Len(LanguageCodes)}

\* languages a caption track of the video may be in; "pt" is not in
\* LanguageCodes
TrackLangs == {"en", "hi", "pt"}

TrackDescriptors == [language_code : TrackLangs, is_generated : BOOLEAN]

TrackSets == {T \in SUBSET TrackDescriptors : Cardinality(T) <= MaxTracks}

Track(lang, gen) == [language_code |-> lang, is_generated |-> gen]

\* a Transcript object: a listed track, or the translation of one
Transcript(lang, gen, from) ==
    [language_code |-> lang, is_generated |-> gen, translated_from |-> from]

NoTranscript == Transcript(None, FALSE, None)

\* find_manually_created_transcript(codes) / find_generated_transcript(codes):
\* the track of the first code of the list that has one of the asked kind;
\* NoTranscript stands for the NoTranscriptFound exception
FindTranscript(trs, gen) ==
    LET hits == {i \in 1..Len(LanguageCodes) : Track(LanguageCodes[i], gen) \in trs}
        first == CHOOSE i \in hits : \A j \in hits : i <= j
    IN  IF hits = {} THEN NoTranscript
        ELSE Transcript(LanguageCodes[first], gen, None)

\* transcript.translate(target_lang)
Translate(t, lang) == Transcript(lang, t.is_generated, t.language_code)

\* the segment texts the service serves for a listed track
Greeting(lang) ==
    CASE lang = "en" -> "Hello"
      [] lang = "hi" -> "namaste"
      [] OTHER -> "ola"

TrackSegments(lang, gen) ==
    <<Greeting(lang), IF gen THEN "wrld" ELSE "world">>

\* [i['text'] for i in transcript.fetch()]
FetchTexts(t) ==
    IF t.translated_from = None
    THEN TrackSegments(t.language_code, t.is_generated)
    ELSE LET src == TrackSegments(t.translated_from, t.is_generated)
         IN  [i \in 1..Len(src) |-> src[i] \o "@" \o t.language_code]

\* result["text"] of whisper_model.transcribe
SttText == "spoken words"

(***************************************************************************)
(* get_transcript, lines 170-215                                           *)
(***************************************************************************)
MsgFallback == "No YouTube subtitles found. Falling back to speech-to-text..."
MsgFetchError == "Error fetching transcript. Please make sure the video URL is valid."

NoResult == [text |-> None, original_language |-> None]

\* Each call into a service (the caption service, pytube, whisper, the
\* completion API, the file system) may succeed or raise; get_transcript and
\* the operators it is made of therefore yield the SET of outcomes a call
\* can have, and an action picks one of them.

\* the outcome of a get_transcript call that has not started
Idle ==
    [exc |-> None, exc_msg |-> "", failed_at |-> "", result |-> NoResult,
     calls |-> <<>>, api_ids |-> {}, messages |-> <<>>,
     tmp_dir |-> FALSE, tmp_file |-> FALSE, cleanup |-> "not_run"]

Raised(o, exc, at, msg) ==
    [o EXCEPT !.exc = exc, !.failed_at = at, !.exc_msg = msg]

\* line 205
NeedsTranslationNever(target_lang, original_lang) == FALSE

NeedsTranslationAlways(target_lang, original_lang) == TRUE

NeedsTranslation(target_lang, original_lang) == target_lang # original_lang

\* lines 205-211: a caption track was found
FromCaptions(o, transcript, target_lang) ==
    LET original_lang == transcript.language_code
        translating == NeedsTranslation(target_lang, original_lang)
        o1 == IF translating
              THEN [o EXCEPT !.calls = Append(@, "translate")]
              ELSE o
        final == IF translating THEN Translate(transcript, target_lang)
                 ELSE transcript
        o2 == [o1 EXCEPT !.calls = Append(@, "fetch")]
    IN  (IF translating
         THEN {Raised(o1, "Exception", "translate", "caption service error")}
         ELSE {})
        \cup {Raised(o2, "Exception", "fetch", "caption service error")}
        \cup {[o2 EXCEPT !.result = [text |-> Join(FetchTexts(final)),
                                     original_language |-> original_lang]]}

\* lines 193-198: os.remove, then os.rmdir, either of which may raise into
\* the bare except
Removals == {"done", "remove_failed", "rmdir_failed"}

CleanUp(o, outcome) ==
    [o EXCEPT !.calls = IF outcome = "remove_failed"
                        THEN Append(@, "os.remove")
                        ELSE @ \o <<"os.remove", "os.rmdir">>,
              !.tmp_file = (outcome = "remove_failed"),
              !.tmp_dir = (outcome # "done"),
              !.cleanup = outcome]

\* lines 185-203 with download_audio (147-160) and transcribe_audio (162-168)
AudioFallback(o) ==
    LET o1 == [o EXCEPT !.messages = Append(@, MsgFallback),
                        !.calls = Append(@, "download_audio")]
        \* YouTube(url) or the stream lookup raised, lines 149-150
        early == Raised(o1, "Exception", "download_audio",
                        "Error downloading audio: cause")
        \* the download raised after mkdtemp, line 157, with or without a
        \* partly written file
        late == {[early EXCEPT !.tmp_dir = TRUE, !.tmp_file = f] : f \in BOOLEAN}
        o2 == [o1 EXCEPT !.tmp_dir = TRUE, !.tmp_file = TRUE,
                         !.calls = Append(@, "transcribe_audio")]
        stt == Raised(o2, "Exception", "transcribe_audio",
                      "Error transcribing audio: cause")
    IN  {early} \cup late \cup {stt}
        \cup {[CleanUp(o2, r) EXCEPT !.result =
                   [text |-> SttText, original_language |-> "auto-detected"]]
              : r \in Removals}

\* lines 172-211, the body of the outer try
TranscriptBody(u, target_lang, trs) ==
    LET p == Split(u, <<"v=">>)
        video_id == p[2]
        o1 == [Idle EXCEPT !.api_ids = {video_id},
                           !.calls = <<"list_transcripts">>]
        manual == FindTranscript(trs, FALSE)
        generated == FindTranscript(trs, TRUE)
        o2 == [o1 EXCEPT !.calls = Append(@, "find_manually_created_transcript")]
        o3 == [o2 EXCEPT !.calls = Append(@, "find_generated_transcript")]
    IN  IF Len(p) < 2
        THEN {Raised(Idle, "IndexError", "split", "list index out of range")}
        ELSE {Raised(o1, "Exception", "list_transcripts", "caption service error")}
             \cup (IF manual # NoTranscript
                   THEN FromCaptions(o2, manual, target_lang)
                   ELSE IF generated # NoTranscript
                   THEN FromCaptions(o3, generated, target_lang)
                   ELSE AudioFallback(o3))

\* lines 213-215: the handler that reports and re-raises
Reraise(o) ==
    IF Catches("Exception", o.exc)
    THEN [o EXCEPT !.messages = Append(@, MsgFetchError)]
    ELSE o

\* lines 170-215
get_transcript(u, target_lang, trs) ==
    {Reraise(o) : o \in TranscriptBody(u, target_lang, trs)}

(***************************************************************************)
(* The page: what one script run does, lines 220-309                       *)
(***************************************************************************)
\* line 252: the options of the language selectbox offered in this model
SelectableLangs == {"en", "hi", "mr"}

Clause(class, msg, with_cause) ==
    [class |-> class, msg |-> msg, with_cause |-> with_cause]

\* lines 306-309: the clauses of the try that encloses the page
OuterClauses ==
    <<Clause("IndexError", MsgInvalidUrl, FALSE),
      Clause("Exception", "An unexpected error occurred: ", TRUE)>>

\* lines 303-304
TranscriptClauses ==
    <<Clause("Exception", "An error occurred while fetching transcript: ", TRUE)>>
        \o OuterClauses

\* lines 274-276
SummaryClauses ==
    <<Clause("Exception",
             "An error occurred while generating the summary. Please try again.",
             FALSE)>> \o OuterClauses

\* lines 291-292
AskClauses ==
    <<Clause("Exception", "An error occurred: ", TRUE)>> \o OuterClauses

\* an exception travelling outwards through the except clauses around it:
\* the first clause that matches reports it, and with none it leaves the
\* script run unhandled
Report(exc, exc_msg, clauses) ==
    LET hits == {i \in 1..Len(clauses) : Catches(clauses[i].class, exc)}
        first == CHOOSE i \in hits : \A j \in hits : i <= j
    IN  IF exc = None THEN [unhandled |-> FALSE, errors |-> <<>>]
        ELSE IF hits = {} THEN [unhandled |-> TRUE, errors |-> <<>>]
        ELSE [unhandled |-> FALSE,
              errors |-> <<clauses[first].msg \o
                           (IF clauses[first].with_cause THEN exc_msg ELSE "")>>]

NotExtracted == [exc |-> None, id |-> <<>>]

\* lines 221-229: the extraction runs in every script run with a URL
Extraction(u) == IF u = <<>> THEN NotExtracted ELSE ExtractVideoId(u)

\* the buttons and the selectbox are drawn only after the extraction
Ready(u) == u # <<>> /\ ExtractVideoId(u).exc = None

\* a script run in which no button is pressed
PageRun(action, u) ==
    LET e == Extraction(u)
        r == Report(e.exc, "Invalid YouTube URL format", OuterClauses)
    IN  [action |-> action, extract |-> e, req_lang |-> None, hit |-> FALSE,
         gt |-> Idle, result |-> NoResult, raised |-> e.exc,
         unhandled |-> r.unhandled, errors |-> r.errors, shown |-> <<>>,
         completions |-> 0]

\* lines 48-50: st.cache_data around get_transcript; a raised exception is
\* not stored
get_cached_transcript(u, lang, trs, store) ==
    IF <<u, lang>> \in DOMAIN store
    THEN {[hit |-> TRUE, gt |-> Idle, result |-> store[<<u, lang>>],
           store |-> store]}
    ELSE {[hit |-> FALSE, gt |-> o, result |-> o.result,
           store |-> IF o.exc = None
                     THEN (<<u, lang>> :> o.result) @@ store
                     ELSE store] : o \in get_transcript(u, lang, trs)}

\* choices[0].message.content of a completion
Completion == "Have a nice day!"

(***************************************************************************)
(* State                                                                   *)
(***************************************************************************)
Https == <<"https://">>

\* the URLs typed in the page specification
AppUrls ==
    { Https \o <<"youtu.be", "/", "abc123", "?", "t=5">>,
      Https \o <<"youtu.be", "/", "?", "t=5">>,
      Https \o <<"www.", "youtube.com", "/", "watch", "?", "v=", "&", "t=5">>,
      Https \o <<"www.", "youtube.com", "/", "watch", "?", "v=", "abc123">>,
      Https \o <<"www.", "youtube.com", "/", "watch", "?", "v=", "abc123", "&", "t=5">>,
      Https \o <<"example.com", "/", "video">> }

\* the pieces the URLs of the extraction specification are built from
UrlParts ==
    { <<"youtu.be">>, <<"/">>, <<"youtube.com", "/", "watch", "?">>, <<"v=">>,
      <<"?">>, <<"&">>, <<"abc123">>, <<"t=5">> }


Init ==
    /\ url = <<>>
    /\ target_language = "en"
    /\ tracks \in TrackSets
    /\ cache = <<>>
    /\ summary_cache = <<>>
    /\ last = PageRun("start", <<>>)

\* the user types a URL into the empty text input, line 220
EnterUrl(u) ==
    /\ url = <<>>
    /\ url' = u
    /\ last' = PageRun("EnterUrl", u)
    /\ UNCHANGED <<target_language, tracks, cache, summary_cache>>

\* the user picks a language, lines 250-258
SelectLanguage(l) ==
    /\ Ready(url)
    /\ target_language' = l
    /\ last' = PageRun("SelectLanguage", url)
    /\ UNCHANGED <<url, tracks, cache, summary_cache>>

\* the Get Transcript button, lines 295-304
GetTranscript ==
    /\ Ready(url)
    /\ \E c \in get_cached_transcript(url, target_language, tracks, cache) :
         LET r == Report(c.gt.exc, c.gt.exc_msg, TranscriptClauses)
         IN  /\ cache' = c.store
             /\ last' = [PageRun("GetTranscript", url) EXCEPT
                    !.req_lang = target_language, !.hit = c.hit, !.gt = c.gt,
                    !.result = c.result, !.raised = c.gt.exc,
                    !.unhandled = r.unhandled, !.errors = r.errors,
                    !.shown = IF c.gt.exc = None
                              THEN <<"Original video language detected: "
                                       \o c.result.original_language,
                                     c.result.text>>
                              ELSE <<>>]
    /\ UNCHANGED <<url, target_language, tracks, summary_cache>>

\* the Generate Summary button, lines 267-276, with generate_cached_summary
\* (lines 53-68)
GenerateSummary ==
    /\ Ready(url)
    /\ \E c \in get_cached_transcript(url, "en", tracks, cache) :
         LET text == c.result.text
             cached == c.gt.exc = None /\ text \in DOMAIN summary_cache
             called == c.gt.exc = None /\ ~cached
         IN  \E completion_ok \in IF called THEN BOOLEAN ELSE {TRUE} :
               LET exc == IF c.gt.exc # None THEN c.gt.exc
                          ELSE IF ~completion_ok THEN "Exception"
                          ELSE None
                   exc_msg == IF c.gt.exc # None THEN c.gt.exc_msg
                              ELSE "completion service error"
                   r == Report(exc, exc_msg, SummaryClauses)
               IN  /\ cache' = c.store
                   /\ summary_cache' = IF called /\ completion_ok
                                       THEN (text :> Completion) @@ summary_cache
                                       ELSE summary_cache
                   /\ last' = [PageRun("GenerateSummary", url) EXCEPT
                          !.req_lang = "en", !.hit = c.hit, !.gt = c.gt,
                          !.result = c.result, !.raised = exc,
                          !.unhandled = r.unhandled, !.errors = r.errors,
                          !.completions = IF called THEN 1 ELSE 0,
                          !.shown = IF exc # None THEN <<>>
                                    ELSE IF cached THEN <<summary_cache[text]>>
                                    ELSE <<Completion>>]
    /\ UNCHANGED <<url, target_language, tracks>>

\* the Ask AI button with a question typed in, lines 280-292
AskAI ==
    /\ Ready(url)
    /\ \E o \in get_transcript(url, "en", tracks) :
         LET called == o.exc = None
         IN  \E completion_ok \in IF called THEN BOOLEAN ELSE {TRUE} :
               LET exc == IF o.exc # None THEN o.exc
                          ELSE IF ~completion_ok THEN "Exception"
                          ELSE None
                   exc_msg == IF o.exc # None THEN o.exc_msg
                              ELSE "completion service error"
                   r == Report(exc, exc_msg, AskClauses)
               IN  last' = [PageRun("AskAI", url) EXCEPT
                          !.req_lang = "en", !.gt = o, !.result = o.result,
                          !.raised = exc, !.unhandled = r.unhandled,
                          !.errors = r.errors,
                          !.completions = IF called THEN 1 ELSE 0,
                          !.shown = IF exc # None THEN <<>> ELSE <<Completion>>]
    /\ UNCHANGED <<url, target_language, tracks, cache, summary_cache>>

\* an entry of get_cached_transcript reaches its ttl of 3600 s, line 48
ExpireTranscript(k) ==
    /\ k \in DOMAIN cache
    /\ cache' = [j \in DOMAIN cache \ {k} |-> cache[j]]
    /\ UNCHANGED <<url, target_language, tracks, summary_cache, last>>

\* an entry of generate_cached_summary reaches its ttl, line 53
ExpireSummary(t) ==
    /\ t \in DOMAIN summary_cache
    /\ summary_cache' = [j \in DOMAIN summary_cache \ {t} |-> summary_cache[j]]
    /\ UNCHANGED <<url, target_language, tracks, cache, last>>

Next ==
    \/ url = <<>> /\ \E u \in AppUrls : EnterUrl(u)
    \/ \E l \in SelectableLangs : SelectLanguage(l)
    \/ GetTranscript
    \/ GenerateSummary
    \/ AskAI
    \/ \E k \in DOMAIN cache : ExpireTranscript(k)
    \/ \E t \in DOMAIN summary_cache : ExpireSummary(t)

Spec == Init /\ [][Next]_vars

\* the extraction alone, over every URL built from at most MaxUrlParts pieces
InitExtract == Init /\ tracks = {}

NextExtract ==
    /\ url = <<>>
    /\ \E k \in 1..MaxUrlParts :
          \E ps \in [1..k -> UrlParts] : EnterUrl(Flatten(ps))

SpecExtract == InitExtract /\ [][NextExtract]_vars

(***************************************************************************)
(* Vocabulary of the properties                                            *)
(***************************************************************************)
Resolving == {"GetTranscript", "GenerateSummary", "AskAI"}

Calls == last.gt.calls

Called(name) == \E i \in DOMAIN Calls : Calls[i] = name

Count(name) == Cardinality({i \in DOMAIN Calls : Calls[i] = name})

Before(first, second) ==
    \A j \in DOMAIN Calls :
        Calls[j] = second => \E i \in 1..(j - 1) : Calls[i] = first

\* the caption service answered list_transcripts in the last run
Listed == Called("list_transcripts") /\ last.gt.failed_at # "list_transcripts"

\* position of a language in the lookup list
Pos(lang) == CHOOSE i \in 1..Len(LanguageCodes) : LanguageCodes[i] = lang

IdTokens == {"abc123", "t=5"}

Ids == SeqsUpTo(IdTokens, MaxIdLen) \ {<<>>}

HasPiece(u, piece) == \E i \in 1..Len(u) : StartsAt(u, piece, i)

\* *youtu.be/<id>?*
ShortShape(u, id) == HasPiece(u, <<"youtu.be", "/">> \o id \o <<"?">>)

\* *youtube.com/watch?v=<id>&*
LongShape(u, id) ==
    HasPiece(u, <<"youtube.com", "/", "watch", "?", "v=">> \o id \o <<"&">>)

(***************************************************************************)
(* C1                                                                      *)
(***************************************************************************)
\* C1: whenever the audio fallback was entered, the temporary audio file and
\* its directory are gone when get_transcript exits, on every exit path
\* (unless the removal itself failed), and a failed removal raises nothing.
C1_TempRemovedOnEveryExit ==
    Called("download_audio") =>
        /\ last.gt.cleanup \notin {"remove_failed", "rmdir_failed"}
              => ~last.gt.tmp_file /\ ~last.gt.tmp_dir
        /\ last.gt.cleanup \in {"remove_failed", "rmdir_failed"}
              => last.gt.exc = None

(***************************************************************************)
(* C2                                                                      *)
(***************************************************************************)
\* C2: after Get Transcript on a short-form URL the extractor accepted, with
\* no service call failing, the resolver has succeeded on the video the
\* extractor identified; for https://youtu.be/abc123?t=5 with one manual
\* English track and target en the result is {Hello world, en}.
C2_ShortUrlResolves ==
    ( /\ last.action = "GetTranscript"
      /\ Contains(url, <<"youtu.be">>)
      /\ last.extract.exc = None
      /\ last.gt.failed_at \in {"", "split"} )
    =>  /\ last.raised = None
        /\ \A id \in last.gt.api_ids : id = last.extract.id
        /\ ( /\ url = Https \o <<"youtu.be", "/", "abc123", "?", "t=5">>
             /\ tracks = {Track("en", FALSE)}
             /\ last.req_lang = "en" )
           => last.result = [text |-> "Hello world", original_language |-> "en"]

(***************************************************************************)
(* C3                                                                      *)
(***************************************************************************)
\* C3: when the caption service yields no usable track (list_transcripts
\* fails, or it lists no track in a supported language), get_transcript
\* goes on to the audio fallback: download_audio once, then transcribe_audio
\* once, and it fails only if the download or the transcription fails.
C3_NoTrackFallsBackToAudio ==
    ( /\ Called("list_transcripts")
      /\ \/ last.gt.failed_at = "list_transcripts"
         \/ \A t \in tracks : t.language_code \notin Supported )
    =>  /\ Count("download_audio") = 1
        /\ last.gt.failed_at # "download_audio" => Count("transcribe_audio") = 1
        /\ Before("download_audio", "transcribe_audio")
        /\ last.gt.exc # None
              => last.gt.failed_at \in {"download_audio", "transcribe_audio"}

(***************************************************************************)
(* C4                                                                      *)
(***************************************************************************)
C4_Conclusion ==
    /\ ~Called("translate")
    /\ ~Called("download_audio")
    /\ ~Called("transcribe_audio")
    /\ last.gt.failed_at \in {"", "fetch"}
    /\ last.gt.exc = None
          => last.result.text = Join(TrackSegments(last.req_lang, FALSE))

\* C4 as stated: whenever the listed tracks contain a manual track in the
\* target language, get_transcript returns that track's text without
\* translate and without download_audio or transcribe_audio.
C4_ManualTargetTrack ==
    ( /\ Listed
      /\ last.req_lang \in Supported
      /\ Track(last.req_lang, FALSE) \in tracks )
    => C4_Conclusion

\* C4 amended: the same, when no manual track is listed in a language that
\* precedes the target language in the lookup list en, hi, mr, es, fr, de,
\* ja, ko, ru.
C4_FirstManualTargetTrack ==
    ( /\ Listed
      /\ last.req_lang \in Supported
      /\ Track(last.req_lang, FALSE) \in tracks
      /\ \A t \in tracks :
            (~t.is_generated /\ t.language_code \in Supported)
                => Pos(t.language_code) >= Pos(last.req_lang) )
    => C4_Conclusion

\* Get Transcript for hi, with a manual hi track next to a generated en
\* track, returned the manual track's text
C4_Witness ==
    /\ last.action = "GetTranscript"
    /\ ~last.hit
    /\ last.req_lang = "hi"
    /\ tracks = {Track("hi", FALSE), Track("en", TRUE)}
    /\ last.gt.exc = None
    /\ last.result = [text |-> "namaste world", original_language |-> "hi"]

(***************************************************************************)
(* C5                                                                      *)
(***************************************************************************)
C5_Conclusion(t) ==
    /\ Called("translate")
    /\ Before("translate", "fetch")
    /\ last.gt.exc = None
          => /\ last.result.text =
                   Join(FetchTexts(Transcript(last.req_lang, TRUE, t.language_code)))
             /\ last.result.original_language = t.language_code

\* C5 as stated: with no manual track and only an auto-generated track in a
\* language other than the target, translate is called before fetch, the
\* text is the translated track's and original_language is the track's own
\* language code.
C5_GeneratedTrackTranslated ==
    \A t \in tracks :
        ( /\ Listed
          /\ tracks = {t}
          /\ t.is_generated
          /\ t.language_code # last.req_lang )
        => C5_Conclusion(t)

\* C5 amended: the same, for an auto-generated track in one of the
\* languages of the lookup list.
C5_SupportedGeneratedTrackTranslated ==
    \A t \in tracks :
        ( /\ Listed
          /\ tracks = {t}
          /\ t.is_generated
          /\ t.language_code \in Supported
          /\ t.language_code # last.req_lang )
        => C5_Conclusion(t)

\* Generate Summary (target en) on a video with only a generated hi track
\* returned the translated text and hi as the original language
C5_Witness ==
    /\ last.action = "GenerateSummary"
    /\ ~last.hit
    /\ tracks = {Track("hi", TRUE)}
    /\ last.gt.calls = <<"list_transcripts", "find_manually_created_transcript",
                         "find_generated_transcript", "translate", "fetch">>
    /\ last.result = [text |-> "namaste@en wrld@en", original_language |-> "hi"]

(***************************************************************************)
(* C6                                                                      *)
(***************************************************************************)
\* C6: for every URL of the shape *youtu.be/<id>?* or
\* *youtube.com/watch?v=<id>&* the extraction yields exactly <id>, and for
\* every URL with neither marker it fails with the invalid-format error and
\* yields no identifier.
C6_ShapesYieldId ==
    last.action = "EnterUrl" =>
        /\ \A id \in Ids :
              (ShortShape(url, id) \/ LongShape(url, id))
                  => last.extract = [exc |-> None, id |-> id]
        /\ (~Contains(url, <<"youtu.be">>) /\ ~Contains(url, <<"youtube.com">>))
              => /\ last.extract = [exc |-> "ValueError", id |-> <<>>]
                 /\ last.errors = <<MsgUnexpectedInvalid>>

(***************************************************************************)
(* C7                                                                      *)
(***************************************************************************)
\* C7: a script run that requests the transcript of a (URL, language) key
\* that is resolved and not yet expired returns the stored result and calls
\* no caption, download or speech-to-text service.
C7_ResolvedKeyNotRefetched ==
    [][ ( /\ last' # last
          /\ last'.action \in Resolving
          /\ <<url, last'.req_lang>> \in DOMAIN cache )
        =>  /\ last'.result = cache[<<url, last'.req_lang>>]
            /\ last'.gt.calls = <<>> ]_vars

(***************************************************************************)
(* C8                                                                      *)
(***************************************************************************)
\* C8: every exception raised in a script run (by the extraction, by
\* get_transcript or by a completion call) is caught in that run and shown
\* as an error message; none leaves the run unhandled.
C8_ErrorsCaughtAndShown ==
    /\ ~last.unhandled
    /\ last.raised # None => last.errors # <<>>

\* Ask AI ran into a failing transcription and showed its message
C8_Witness ==
    /\ last.action = "AskAI"
    /\ last.raised = "Exception"
    /\ last.gt.failed_at = "transcribe_audio"
    /\ last.errors = <<"An error occurred: Error transcribing audio: cause">>

(***************************************************************************)
(* C9                                                                      *)
(***************************************************************************)
\* C9: every identifier the extraction produces is non-empty.
C9_IdNonEmpty ==
    (last.action = "EnterUrl" /\ last.extract.exc = None)
        => last.extract.id # <<>>

(***************************************************************************)
(* C10                                                                     *)
(***************************************************************************)
\* C10: for a long-form URL the extractor accepts, the identifier
\* get_transcript passes to the caption service equals the identifier the
\* module-level extraction computed for the player.
C10_SameIdForPlayerAndCaptions ==
    ( /\ Contains(url, <<"youtube.com">>)
      /\ ~Contains(url, <<"youtu.be">>)
      /\ last.extract.exc = None )
    => \A id \in last.gt.api_ids : id = last.extract.id

====
